---- MODULE Spec2Model ----
(***************************************************************************)
(* Session / navigation state machine of atlas_projects_manager.py.        *)
(*                                                                         *)
(* Execution model.  The UI toolkit runs one message pump for the app and  *)
(* one for every pushed screen; a pump handles one message at a time.      *)
(*  - The key-bound actions (authenticate, delete, cluster, back, quit)    *)
(*    and on_row_selected run on the app pump, one after the other: a new  *)
(*    one starts only when the previous one has returned (appPc = "idle"). *)
(*    The app's bindings stay active while a ClusterViewScreen is on top.  *)
(*  - ClusterViewScreen.on_mount (fetch_clusters) runs on the pump of its  *)
(*    own screen, so it is suspended at its network await independently    *)
(*    of the app pump, and the event loop may deliver "back" meanwhile.    *)
(*  - A handler is split only at its network awaits (get_projects,         *)
(*    delete_one_project, get_clusters); update_status and aclose never    *)
(*    yield to another handler in between.                                 *)
(*  - Widget look-ups by id (query_one) succeed.                           *)
(*  - The toolkit calls the handlers it has an event or a binding for:     *)
(*    on_mount (Mount), on_row_selected (DataTable.RowSelected) and the    *)
(*    action_* methods named in BINDINGS.  exit() ends the process; no     *)
(*    event of the toolkit is named Exit and nothing in the source calls   *)
(*    on_exit, so on_exit is described below but never scheduled.          *)
(*  - An exception that leaves a handler ends the process (running =       *)
(*    "crashed").                                                          *)
(*                                                                         *)
(* Spec is the session; FairSpec adds that list requests are answered.     *)
(* SpecClient drives the methods of one AtlasAPI object on their own, on   *)
(* HTTP exchanges drawn from a bounded set (variables call, result, conn,  *)
(* which the session leaves alone).                                        *)
(***************************************************************************)
EXTENDS Integers, Sequences, FiniteSets, TLC

\* ---------------------------------------------------------------- bounds
MaxProjects == 2        \* project ids known to the remote organisation
MaxClients  == 3        \* AtlasAPI objects constructed in one run
MaxScreens  == 2        \* ClusterViewScreen objects alive at one time

ProjectIds == 1..MaxProjects
NoClient   == 0         \* self.api_client is None
NoRow      == -1        \* table.cursor_row is None (or negative)

FailKinds == {"http_status", "transport", "bad_json"}

VARIABLES
    running,     \* "running" | "quit" | "crashed"
    server,      \* set of project ids that exist remotely
    api_client,  \* AtlasProjectsApp.api_client (NoClient or a client id)
    nextClient,  \* id the next AtlasAPI(...) gets
    closed,      \* clients whose close() has run
    projects,    \* AtlasProjectsApp.projects (sequence of project ids)
    tableRows,   \* rows of #projects_table (the id column)
    cursor_row,  \* cursor row of #projects_table, 0-based
    status,      \* #status_display: message + severity class
    appPc,       \* where the app pump is: "mount", "idle" or suspended at an await
    delId,       \* project_id held by a suspended action_delete
    stack,       \* ClusterViewScreens pushed on top of the project list
    detached,    \* popped ClusterViewScreens whose fetch_clusters is suspended
    stale,       \* a popped screen as its late response has just left it
    act,         \* the handler that made the last step, and the response it got
    reqs,        \* API calls issued by the running (or last) app action
    call,        \* one AtlasAPI method call: the method and the HTTP exchange
    result,      \* what that method call returned or raised
    conn         \* state of the httpx client of that AtlasAPI object

vars == <<running, server, api_client, nextClient, closed, projects, tableRows,
          cursor_row, status, appPc, delId, stack, detached, stale, act, reqs,
          call, result, conn>>

\* the variables of a single AtlasAPI object, and those of the session
cvars == <<call, result, conn>>
svars == <<running, server, api_client, nextClient, closed, projects, tableRows,
           cursor_row, status, appPc, delId, stack, detached, stale, act, reqs>>

\* ------------------------------------------------------------- helpers
Status(m, d, n, s) == [msg |-> m, detail |-> d, n |-> n, sev |-> s]

\* AtlasProjectsApp.update_status: text, then remove_class + add_class
update_status(message, detail, n, status_type) == Status(message, detail, n, status_type)

\* ClusterViewScreen.update_status: text only, no severity class
cluster_update_status(message, detail, n) == Status(message, detail, n, "")

RECURSIVE SortedSeq(_)
SortedSeq(S) ==
    IF S = {} THEN <<>>
    ELSE LET m == CHOOSE x \in S : \A y \in S : x <= y
         IN  <<m>> \o SortedSeq(S \ {m})

\* body of GET /groups: the results array, in the order the server sends it
ServerProjects == SortedSeq(server)

\* body of GET /groups/{p}/clusters: project p has p clusters 10p+1 .. 10p+p
ServerClusters(p) == [i \in 1..p |-> 10 * p + i]

\* the except clauses of the AtlasAPI methods: every httpx.HTTPError (status
\* or transport) becomes one message, a JSON decode error another
ApiError(kind) ==
    IF kind = "bad_json" THEN "Invalid JSON response from API"
    ELSE "API request failed"

CurrentScreen == IF stack = <<>> THEN "ProjectList" ELSE "ClusterList"
Top           == stack[Len(stack)]
Idle          == running = "running" /\ appPc = "idle"

\* table.get_row_at(i): the row exists
RowExists(i) == i >= 0 /\ i < Len(tableRows)
RowId(i)     == tableRows[i + 1]

NoScreen == [fetch |-> "none"]
\* act: the handler that made the step; resp is "" (no response consumed),
\* "ok" or "failed"
Did(name, resp) ==
    act' = [name |-> name, resp |-> IF resp \in {"", "ok"} THEN resp ELSE "failed"]

NoExchange == [transport_error |-> FALSE, code |-> 0,
               body |-> [json |-> FALSE, has_results |-> FALSE, results |-> <<>>]]
NoCall   == [op |-> "none", x |-> NoExchange, before |-> "open"]
NoResult == [raised |-> FALSE, type |-> "", message |-> "", text |-> "", value |-> <<>>]

\* ---------------------------------------------------------------- Init
Init ==
    /\ running = "running"
    /\ server = ProjectIds
    /\ api_client = NoClient
    /\ nextClient = 1
    /\ closed = {}
    /\ projects = <<>>
    /\ tableRows = <<>>
    /\ cursor_row = 0
    /\ status = Status("Ready", "", 0, "")
    /\ appPc = "mount"
    /\ delId = 0
    /\ stack = <<>>
    /\ detached = <<>>
    /\ stale = NoScreen
    /\ act = [name |-> "none", resp |-> ""]
    /\ reqs = <<>>
    /\ call = NoCall
    /\ result = NoResult
    /\ conn = "open"


\* AtlasProjectsApp.on_mount, a plain "def": it reads the three credentials
\* and calls the coroutine function update_status without awaiting it, so
\* the coroutine object is dropped and the #status widget keeps the text
\* compose gave it.  missing = one of the three strings is empty.
on_mount ==
    /\ running = "running"
    /\ appPc = "mount"
    /\ \E missing \in BOOLEAN :
           act' = [name |-> "on_mount", resp |-> IF missing THEN "missing" ELSE "loaded"]
    /\ appPc' = "idle"
    /\ reqs' = <<>>
    /\ stale' = NoScreen
    /\ UNCHANGED <<running, server, api_client, nextClient, closed, projects,
                   tableRows, cursor_row, status, delId, stack, detached>>
    /\ UNCHANGED cvars

\* ------------------------------------------------------- fetch_projects
\* fetch_projects up to its await on get_projects: status, close the held
\* client, construct a new one, issue GET /groups
fetch_projects_call ==
    /\ status' = update_status("Loading projects...", "", 0, "")
    /\ closed' = IF api_client # NoClient THEN closed \cup {api_client} ELSE closed
    /\ api_client' = nextClient
    /\ nextClient' = nextClient + 1
    /\ appPc' = "get_projects"

\* what fetch_projects makes of the response: the new projects, table rows
\* and status
fetch_projects_M_clear(resp) ==
    IF resp = "ok"
    THEN [projects |-> ServerProjects, rows |-> ServerProjects,
          status |-> update_status("Successfully loaded", "", Len(ServerProjects), "success")]
    ELSE [projects |-> <<>>, rows |-> tableRows,
          status |-> update_status("Error", ApiError(resp), 0, "error")]

\* a successful load that stores the projects and leaves the table as it was
fetch_projects_M_norows(resp) ==
    IF resp = "ok"
    THEN [projects |-> ServerProjects, rows |-> tableRows,
          status |-> update_status("Successfully loaded", "", Len(ServerProjects), "success")]
    ELSE [projects |-> projects, rows |-> tableRows,
          status |-> update_status("Error", ApiError(resp), 0, "error")]

\* a failed load that leaves the status at "Loading projects..."
fetch_projects_M_silent(resp) ==
    IF resp = "ok"
    THEN [projects |-> ServerProjects, rows |-> ServerProjects,
          status |-> update_status("Successfully loaded", "", Len(ServerProjects), "success")]
    ELSE [projects |-> projects, rows |-> tableRows, status |-> status]

fetch_projects_result(resp) ==
    IF resp = "ok"
    THEN [projects |-> ServerProjects, rows |-> ServerProjects,
          status |-> update_status("Successfully loaded", "", Len(ServerProjects), "success")]
    ELSE [projects |-> projects, rows |-> tableRows,
          status |-> update_status("Error", ApiError(resp), 0, "error")]

\* fetch_projects resumed by the response to GET /groups
fetch_projects_resume(resp) ==
    /\ running = "running"
    /\ appPc = "get_projects"
    /\ LET r == fetch_projects_result(resp)
       IN  /\ projects' = r.projects
           /\ tableRows' = r.rows
           /\ status' = r.status
    /\ appPc' = "idle"
    /\ Did("fetch_projects", resp)
    /\ stale' = NoScreen
    /\ delId' = 0
    /\ UNCHANGED <<running, server, api_client, nextClient, closed, cursor_row,
                   stack, detached, reqs>>
    /\ UNCHANGED cvars

\* key "a"
action_authenticate ==
    /\ Idle
    /\ nextClient <= MaxClients
    /\ fetch_projects_call
    /\ Did("action_authenticate", "")
    /\ reqs' = <<"listProjects">>
    /\ stale' = NoScreen
    /\ UNCHANGED <<running, server, projects, tableRows, cursor_row, delId,
                   stack, detached>>
    /\ UNCHANGED cvars

\* --------------------------------------------------------- action_delete
\* key "d", up to the await on delete_one_project
action_delete ==
    /\ Idle
    /\ Did("action_delete", "")
    /\ stale' = NoScreen
    /\ IF cursor_row < 0
       THEN /\ status' = update_status("Please select a project to delete", "", 0, "")
            /\ reqs' = <<>>
            /\ UNCHANGED <<running, api_client, nextClient, appPc, delId>>
       ELSE IF ~RowExists(cursor_row)
       THEN \* get_row_at raises; the handler catches IndexError and
            \* StopIteration only, the table widget decides the class
            /\ reqs' = <<>>
            /\ \E caught \in BOOLEAN :
                 IF caught
                 THEN /\ status' = update_status("Could not find selected project", "", 0, "error")
                      /\ UNCHANGED running
                 ELSE /\ status' = update_status("Deleting project...", "", 0, "")
                      /\ running' = "crashed"
            /\ UNCHANGED <<api_client, nextClient, appPc, delId>>
       ELSE /\ nextClient + 1 <= MaxClients
            /\ status' = update_status("Deleting project", "", 0, "")
            /\ api_client' = nextClient
            /\ nextClient' = nextClient + 1
            /\ delId' = RowId(cursor_row)
            /\ appPc' = "delete_one_project"
            /\ reqs' = <<"deleteProject">>
            /\ UNCHANGED running
    /\ UNCHANGED <<server, closed, projects, tableRows, cursor_row, stack, detached>>
    /\ UNCHANGED cvars

\* action_delete resumed by the response to DELETE /groups/{id}
action_delete_M_noreload(resp) ==
    /\ running = "running"
    /\ appPc = "delete_one_project"
    /\ resp = "ok" => delId \in server
    /\ Did("delete_one_project", resp)
    /\ stale' = NoScreen
    /\ delId' = 0
    /\ IF resp = "ok"
       THEN /\ server' = server \ {delId}
            /\ status' = update_status("Project deleted", "", 0, "success")
            /\ appPc' = "idle"
            /\ UNCHANGED <<running, reqs, closed, api_client, nextClient>>
       ELSE /\ running' = "crashed"
            /\ UNCHANGED <<server, status, closed, api_client, nextClient, appPc, reqs>>
    /\ UNCHANGED <<projects, tableRows, cursor_row, stack, detached>>
    /\ UNCHANGED cvars

\* a delete that drops the project from the list as soon as the server
\* has answered, before the reload
action_delete_M_optimistic(resp) ==
    /\ running = "running"
    /\ appPc = "delete_one_project"
    /\ resp = "ok" => delId \in server
    /\ Did("delete_one_project", resp)
    /\ stale' = NoScreen
    /\ delId' = IF resp = "ok" THEN delId ELSE 0
    /\ IF resp = "ok"
       THEN /\ server' = server \ {delId}
            /\ fetch_projects_call
            /\ reqs' = Append(reqs, "listProjects")
            /\ projects' = SelectSeq(projects, LAMBDA e : e # delId)
            /\ tableRows' = SelectSeq(tableRows, LAMBDA e : e # delId)
            /\ UNCHANGED running
       ELSE /\ running' = "crashed"
            /\ UNCHANGED <<server, status, closed, api_client, nextClient, appPc, reqs,
                           projects, tableRows>>
    /\ UNCHANGED <<cursor_row, stack, detached>>
    /\ UNCHANGED cvars

action_delete_resume(resp) ==
    /\ running = "running"
    /\ appPc = "delete_one_project"
    /\ resp = "ok" => delId \in server
    /\ Did("delete_one_project", resp)
    /\ stale' = NoScreen
    /\ delId' = IF resp = "ok" THEN delId ELSE 0
    /\ IF resp = "ok"
       THEN \* status "Project deleted" (success), then fetch_projects
            /\ server' = server \ {delId}
            /\ fetch_projects_call
            /\ reqs' = Append(reqs, "listProjects")
            /\ UNCHANGED running
       ELSE \* the Exception raised by delete_one_project is neither
            \* IndexError nor StopIteration: it leaves the handler
            /\ running' = "crashed"
            /\ UNCHANGED <<server, status, closed, api_client, nextClient, appPc, reqs>>
    /\ UNCHANGED <<projects, tableRows, cursor_row, stack, detached>>
    /\ UNCHANGED cvars

\* -------------------------------------------------------- action_cluster
\* the for-loop of action_cluster: the first project whose id is the id read
\* from the selected row; 0 stands for None
find_project_M_first(project_id) ==
    IF projects # <<>> THEN projects[1] ELSE 0

find_project(project_id) ==
    IF \E i \in 1..Len(projects) : projects[i] = project_id
    THEN projects[CHOOSE i \in 1..Len(projects) :
                    /\ projects[i] = project_id
                    /\ \A j \in 1..(i - 1) : projects[j] # project_id]
    ELSE 0

\* ClusterViewScreen(project_data, api_client) as compose and on_mount leave
\* it: status "Loading clusters...", GET /groups/{id}/clusters outstanding
ClusterViewScreen(project_data, client) ==
    [project_data |-> project_data, api_client |-> client,
     clusters |-> <<>>, rows |-> <<>>,
     status |-> cluster_update_status("Loading clusters...", "", 0),
     fetch |-> "pending"]

\* view_clusters with an index past the last row clamped to the last row
view_clusters_M_clamp(row) ==
    IF row < 0
    THEN /\ status' = update_status("Please select a project to view clusters", "", 0, "")
         /\ reqs' = <<>>
         /\ UNCHANGED <<api_client, nextClient, stack>>
    ELSE IF tableRows = <<>>
    THEN /\ status' = update_status("Error viewing clusters", "", 0, "error")
         /\ reqs' = <<>>
         /\ UNCHANGED <<api_client, nextClient, stack>>
    ELSE LET r == IF RowExists(row) THEN row ELSE Len(tableRows) - 1
             selected_project == find_project(RowId(r))
         IN  IF selected_project # 0
             THEN /\ Len(stack) + Len(detached) < MaxScreens
                  /\ api_client = NoClient => nextClient <= MaxClients
                  /\ status' = update_status("Opening clusters for", "", 0, "")
                  /\ api_client' = IF api_client = NoClient THEN nextClient ELSE api_client
                  /\ nextClient' = IF api_client = NoClient THEN nextClient + 1 ELSE nextClient
                  /\ stack' = Append(stack, ClusterViewScreen(selected_project, api_client'))
                  /\ reqs' = <<"listClusters">>
             ELSE /\ status' = update_status("Could not find project data", "", 0, "error")
                  /\ reqs' = <<>>
                  /\ UNCHANGED <<api_client, nextClient, stack>>

\* body of action_cluster with table.cursor_row = row
view_clusters(row) ==
    IF row < 0
    THEN /\ status' = update_status("Please select a project to view clusters", "", 0, "")
         /\ reqs' = <<>>
         /\ UNCHANGED <<api_client, nextClient, stack>>
    ELSE IF ~RowExists(row)
    THEN \* get_row_at raises, caught by "except (IndexError, Exception)"
         /\ status' = update_status("Error viewing clusters", "", 0, "error")
         /\ reqs' = <<>>
         /\ UNCHANGED <<api_client, nextClient, stack>>
    ELSE LET project_id == RowId(row)
             selected_project == find_project(project_id)
         IN  IF selected_project # 0
             THEN /\ Len(stack) + Len(detached) < MaxScreens
                  /\ api_client = NoClient => nextClient <= MaxClients
                  /\ status' = update_status("Opening clusters for", "", 0, "")
                  /\ api_client' = IF api_client = NoClient THEN nextClient ELSE api_client
                  /\ nextClient' = IF api_client = NoClient THEN nextClient + 1 ELSE nextClient
                  /\ stack' = Append(stack, ClusterViewScreen(selected_project, api_client'))
                  /\ reqs' = <<"listClusters">>
             ELSE /\ status' = update_status("Could not find project data", "", 0, "error")
                  /\ reqs' = <<>>
                  /\ UNCHANGED <<api_client, nextClient, stack>>

\* key "v"
action_cluster ==
    /\ Idle
    /\ Did("action_cluster", "")
    /\ stale' = NoScreen
    /\ view_clusters(cursor_row)
    /\ UNCHANGED <<running, server, closed, projects, tableRows, cursor_row,
                   appPc, delId, detached>>
    /\ UNCHANGED cvars

\* DataTable.RowSelected of #projects_table: the cursor is on the selected
\* row when the handler calls action_cluster
on_row_selected ==
    /\ Idle
    /\ stack = <<>>
    /\ Did("on_row_selected", "")
    /\ stale' = NoScreen
    /\ \E i \in 0..(Len(tableRows) - 1) :
         /\ cursor_row' = i
         /\ view_clusters(i)
    /\ UNCHANGED <<running, server, closed, projects, tableRows, appPc, delId,
                   detached>>
    /\ UNCHANGED cvars

\* the user moves the cursor of #projects_table (NoRow: no row selected)
MoveCursor ==
    /\ Idle
    /\ stack = <<>>
    /\ \E i \in NoRow..(MaxProjects - 1) :
         /\ i # cursor_row
         /\ cursor_row' = i
    /\ Did("cursor", "")
    /\ stale' = NoScreen
    /\ UNCHANGED <<running, server, api_client, nextClient, closed, projects,
                   tableRows, status, appPc, delId, stack, detached, reqs>>
    /\ UNCHANGED cvars

\* ------------------------------------------------------ ClusterViewScreen
\* what fetch_clusters makes of the response to get_clusters(project_data.id)
\* a response stored with the project of the screen on top of the stack
fetch_clusters_M_top(sc, resp) ==
    LET clusters == ServerClusters(IF stack = <<>> THEN sc.project_data
                                                   ELSE Top.project_data)
    IN  IF resp = "ok"
        THEN [sc EXCEPT !.clusters = clusters, !.rows = clusters,
                 !.status = cluster_update_status("Successfully loaded", "", Len(clusters)),
                 !.fetch = "ok"]
        ELSE [sc EXCEPT
                 !.status = cluster_update_status("Error loading clusters", ApiError(resp), 0),
                 !.fetch = "failed"]

fetch_clusters_result(sc, resp) ==
    LET clusters == ServerClusters(sc.project_data)
    IN  IF resp = "ok"
        THEN [sc EXCEPT !.clusters = clusters, !.rows = clusters,
                 !.status = cluster_update_status("Successfully loaded", "", Len(clusters)),
                 !.fetch = "ok"]
        ELSE [sc EXCEPT
                 !.status = cluster_update_status("Error loading clusters", ApiError(resp), 0),
                 !.fetch = "failed"]

\* fetch_clusters of the i-th pushed screen resumed by its response
fetch_clusters_resume(i, resp) ==
    /\ running = "running"
    /\ i \in 1..Len(stack)
    /\ stack[i].fetch = "pending"
    /\ resp = "ok" => stack[i].project_data \in server
    /\ stack' = [stack EXCEPT ![i] = fetch_clusters_result(stack[i], resp)]
    /\ Did("fetch_clusters", resp)
    /\ stale' = NoScreen
    /\ UNCHANGED <<running, server, api_client, nextClient, closed, projects,
                   tableRows, cursor_row, status, appPc, delId, detached, reqs>>
    /\ UNCHANGED cvars

Remove(seq, j) == SubSeq(seq, 1, j - 1) \o SubSeq(seq, j + 1, Len(seq))

\* fetch_clusters of a popped screen resumed by its (late) response
fetch_clusters_M_reenter(j, resp) ==
    /\ running = "running"
    /\ j \in 1..Len(detached)
    /\ resp = "ok" => detached[j].project_data \in server
    /\ stale' = fetch_clusters_result(detached[j], resp)
    /\ detached' = Remove(detached, j)
    /\ stack' = Append(stack, stale')
    /\ Did("fetch_clusters_late", resp)
    /\ UNCHANGED <<running, server, api_client, nextClient, closed, projects,
                   tableRows, cursor_row, status, appPc, delId, reqs>>
    /\ UNCHANGED cvars

fetch_clusters_late(j, resp) ==
    /\ running = "running"
    /\ j \in 1..Len(detached)
    /\ resp = "ok" => detached[j].project_data \in server
    /\ stale' = fetch_clusters_result(detached[j], resp)
    /\ detached' = Remove(detached, j)
    /\ Did("fetch_clusters_late", resp)
    /\ UNCHANGED <<running, server, api_client, nextClient, closed, projects,
                   tableRows, cursor_row, status, appPc, delId, stack, reqs>>
    /\ UNCHANGED cvars

\* key "escape" on a ClusterViewScreen: self.app.pop_screen()
action_back ==
    /\ Idle
    /\ stack # <<>>
    /\ stack' = SubSeq(stack, 1, Len(stack) - 1)
    /\ detached' = IF Top.fetch = "pending" THEN Append(detached, Top) ELSE detached
    /\ Did("action_back", "")
    /\ stale' = NoScreen
    /\ reqs' = <<>>
    /\ UNCHANGED <<running, server, api_client, nextClient, closed, projects,
                   tableRows, cursor_row, status, appPc, delId>>
    /\ UNCHANGED cvars

\* ------------------------------------------------------------------ quit
\* body of on_exit: close the held client, if any
on_exit ==
    closed' = IF api_client # NoClient THEN closed \cup {api_client} ELSE closed

\* key "q" on either screen: AtlasProjectsApp.action_quit and
\* ClusterViewScreen.action_quit both call exit() and nothing else
action_quit ==
    /\ Idle
    /\ Did("action_quit", "")
    /\ stale' = NoScreen
    /\ reqs' = <<>>
    /\ running' = "quit"
    /\ UNCHANGED <<server, api_client, nextClient, closed, projects, tableRows,
                   cursor_row, status, appPc, delId, stack, detached>>
    /\ UNCHANGED cvars

\* ------------------------------------------------------------------ Next
Responses        == {"ok"} \cup FailKinds
\* fetch_clusters treats every exception alike: one failure kind is drawn
ClusterResponses == {"ok", "transport"}
\* delete_one_project reads no body: no JSON error
DeleteResponses  == {"ok", "http_status", "transport"}

Next ==
    \/ on_mount
    \/ action_authenticate
    \/ \E resp \in Responses : fetch_projects_resume(resp)
    \/ action_delete
    \/ \E resp \in DeleteResponses : action_delete_resume(resp)
    \/ action_cluster
    \/ on_row_selected
    \/ MoveCursor
    \/ \E i \in 1..MaxScreens, resp \in ClusterResponses : fetch_clusters_resume(i, resp)
    \/ \E j \in 1..MaxScreens, resp \in ClusterResponses : fetch_clusters_late(j, resp)
    \/ action_back
    \/ action_quit

Spec == Init /\ [][Next]_vars

\* Every issued list request is answered: the coroutine suspended in
\* "await self.api_client.get_projects()" or "...get_clusters(...)" is
\* resumed, by the answer or by the failure, as long as the process runs and
\* the screen is on the stack.
Answered ==
    /\ WF_vars(\E resp \in Responses : fetch_projects_resume(resp))
    /\ \A i \in 1..MaxScreens :
          WF_vars(\E resp \in ClusterResponses : fetch_clusters_resume(i, resp))

FairSpec == Spec /\ Answered

\* ------------------------------------------------------- AtlasAPI alone
\* One AtlasAPI object driven directly: each step is one method call on an
\* HTTP exchange drawn from a bounded set, and result is what the method
\* returned or raised.

MaxLen == 2
EmptyId == 0
StatusCodes == {200, 401, 404, 500}

\* one element of the "results" array, with or without an "id" key
RawItems == {[has_id |-> TRUE, id |-> p] : p \in ProjectIds}
                \cup {[has_id |-> FALSE, id |-> EmptyId]}
ResultArrays == UNION {[1..n -> RawItems] : n \in 0..MaxLen}

\* response bodies: not JSON, a JSON object without "results", a JSON object
\* with a "results" array
Bodies ==
    {[json |-> FALSE, has_results |-> FALSE, results |-> <<>>],
     [json |-> TRUE, has_results |-> FALSE, results |-> <<>>]}
        \cup {[json |-> TRUE, has_results |-> TRUE, results |-> a] : a \in ResultArrays}

\* the request either fails in transport or is answered with a status and body
Exchanges ==
    {[transport_error |-> TRUE, code |-> 0,
      body |-> [json |-> FALSE, has_results |-> FALSE, results |-> <<>>]]}
        \cup {[transport_error |-> FALSE, code |-> c, body |-> b] :
                    c \in StatusCodes, b \in Bodies}

\* response.raise_for_status() passes exactly the 2xx codes
Is2xx(code) == code >= 200 /\ code < 300

\* ProjectData / ClusterData: data.get('id', '')
ProjectData(raw) == [id |-> IF raw.has_id THEN raw.id ELSE EmptyId]

Return(v) == [raised |-> FALSE, type |-> "", message |-> "", text |-> "", value |-> v]
\* raise Exception(f"API request failed: {e}") and
\* raise Exception("Invalid JSON response from API")
Raise(kind, e) ==
    [raised |-> TRUE, type |-> "Exception", message |-> ApiError(kind),
     text |-> e, value |-> <<>>]

\* data.get('results', []) turned into records by the for loop, reversed
parse_results_M_reverse(body) ==
    IF body.has_results
    THEN [i \in 1..Len(body.results) |->
             ProjectData(body.results[Len(body.results) + 1 - i])]
    ELSE <<>>
\* for project_data in data.get('results', []): projects.append(ProjectData(...))
parse_results(body) ==
    IF body.has_results
    THEN [i \in 1..Len(body.results) |-> ProjectData(body.results[i])]
    ELSE <<>>

\* AtlasAPI.get_projects and AtlasAPI.get_clusters on exchange x
get_projects(x) ==
    IF x.transport_error THEN Raise("transport", "ConnectError")
    ELSE IF ~Is2xx(x.code) THEN Raise("http_status", ToString(x.code))
    ELSE IF ~x.body.json THEN Raise("bad_json", "")
    ELSE Return(parse_results(x.body))
get_clusters(x) == get_projects(x)

\* AtlasAPI.delete_one_project on exchange x: the body is not read
delete_one_project(x) ==
    IF x.transport_error THEN Raise("transport", "ConnectError")
    ELSE IF ~Is2xx(x.code) THEN Raise("http_status", ToString(x.code))
    ELSE Return(<<>>)

\* close() that refuses a client that is already closed
close_M_once(c) ==
    IF c = "closed"
    THEN [conn |-> c, result |-> Raise("transport", "closed")]
    ELSE [conn |-> "closed", result |-> Return(<<>>)]
\* AtlasAPI.close: await self.client.aclose(); closing a closed httpx client
\* does nothing
close(c) == [conn |-> "closed", result |-> Return(<<>>)]

call_get_projects ==
    /\ conn = "open"
    /\ \E x \in Exchanges :
          /\ call' = [op |-> "get_projects", x |-> x, before |-> conn]
          /\ result' = get_projects(x)
    /\ UNCHANGED conn
    /\ UNCHANGED svars

call_get_clusters ==
    /\ conn = "open"
    /\ \E x \in Exchanges :
          /\ call' = [op |-> "get_clusters", x |-> x, before |-> conn]
          /\ result' = get_clusters(x)
    /\ UNCHANGED conn
    /\ UNCHANGED svars

call_delete_one_project ==
    /\ conn = "open"
    /\ \E x \in Exchanges :
          /\ call' = [op |-> "delete_one_project", x |-> x, before |-> conn]
          /\ result' = delete_one_project(x)
    /\ UNCHANGED conn
    /\ UNCHANGED svars

call_close ==
    /\ (call.op = "close") => (call.before = "open")
    /\ call' = [op |-> "close", x |-> NoExchange, before |-> conn]
    /\ conn' = close(conn).conn
    /\ result' = close(conn).result
    /\ UNCHANGED svars

ClientNext ==
    \/ call_get_projects
    \/ call_get_clusters
    \/ call_delete_one_project
    \/ call_close

SpecClient == Init /\ [][ClientNext]_vars

\* ================================================================ claims

\* C1: every failure of listProjects, listClusters or deleteProject is caught
\* inside the action that issued the call: afterwards the process is still
\* running, the status shows the failure detail with severity "error", and
\* the step that consumed the failure left currentScreen, projects and the
\* stored clusters as they were.
C1_FailureShown ==
    /\ (act.resp = "failed" /\ act.name \in {"fetch_projects", "delete_one_project"})
          => /\ running = "running"
             /\ status.sev = "error"
             /\ status.detail # ""
    /\ \A i \in 1..Len(stack) :
          stack[i].fetch = "failed"
             => /\ stack[i].status.sev = "error"
                /\ stack[i].status.detail # ""
                /\ stack[i].clusters = <<>>

C1_FailureFrame ==
    act'.resp = "failed"
       => /\ projects' = projects
          /\ CurrentScreen' = CurrentScreen

C1_FailureCaught == []C1_FailureShown /\ [][C1_FailureFrame]_vars

\* C2: a listClusters response that arrives after the user has left its
\* Cluster List with back changes neither projects nor the screen stack
\* (currentScreen does not become ClusterList again).
C2_LateResponseHarmless ==
    [][Len(detached') < Len(detached)
          => /\ projects' = projects
             /\ stack' = stack]_vars

C2_Witness == stale # NoScreen

\* C3: a listClusters response whose Cluster List has been left via back is
\* dropped: the screen's stored clusters, its table rows and its status are
\* what they were while the request was outstanding.
C3_StaleDropped ==
    stale # NoScreen
       => /\ stale.clusters = <<>>
          /\ stale.rows = <<>>
          /\ stale.status = cluster_update_status("Loading clusters...", "", 0)

\* C4: while the process runs, no open Cluster List holds a closed client and
\* no request is outstanding on a closed client.
C4_SharedClientOpen ==
    running = "running"
       => /\ \A i \in 1..Len(stack) : stack[i].api_client \notin closed
          /\ \A j \in 1..Len(detached) : detached[j].api_client \notin closed
          /\ appPc # "idle" => api_client \notin closed

\* C5: right after openClusters (key or row selection) with the cursor on an
\* existing row, currentScreen is ClusterList and the project stored in the
\* Cluster List on top has the id shown in that row.
C5_OpensSelectedProject ==
    (act.name \in {"action_cluster", "on_row_selected"} /\ RowExists(cursor_row))
       => /\ CurrentScreen = "ClusterList"
          /\ Top.project_data = RowId(cursor_row)

C5_Witness ==
    /\ act.name \in {"action_cluster", "on_row_selected"}
    /\ cursor_row = 1
    /\ RowExists(cursor_row)
    /\ CurrentScreen = "ClusterList"

\* C6: right after a back action currentScreen is ProjectList.
C6_BackToProjectList ==
    act.name = "action_back" => CurrentScreen = "ProjectList"

\* C7: at most one Cluster List is open at any time.
C7_SingleClusterList == Len(stack) <= 1

\* C8: during an authenticate action whose listProjects call fails, projects
\* and currentScreen keep their values, and the failure sets the status
\* severity to "error".
C8_Step ==
    /\ act'.name = "action_authenticate"
          => /\ projects' = projects
             /\ stack' = stack
    /\ (act'.name = "fetch_projects" /\ act'.resp = "failed" /\ reqs = <<"listProjects">>)
          => /\ projects' = projects
             /\ stack' = stack
             /\ status'.sev = "error"

C8_FailedLoadKeepsProjects == [][C8_Step]_vars

C8_Witness ==
    /\ act.name = "fetch_projects"
    /\ act.resp = "failed"
    /\ reqs = <<"listProjects">>
    /\ projects # <<>>
    /\ status.sev = "error"

\* C9: a delete action whose deleteProject call succeeded issues exactly one
\* listProjects call after it and no other request.
C9_OneReloadAfterDelete ==
    /\ (act.name = "delete_one_project" /\ act.resp = "ok")
          => reqs = <<"deleteProject", "listProjects">>
    /\ (Idle /\ reqs # <<>> /\ reqs[1] = "deleteProject")
          => reqs = <<"deleteProject", "listProjects">>

C9_Witness ==
    /\ Idle
    /\ act.name = "fetch_projects"
    /\ reqs = <<"deleteProject", "listProjects">>

\* C10: once the process has exited through quit, the held API client (if
\* any) is closed.
C10_QuitClosesClient ==
    (running = "quit" /\ api_client # NoClient) => api_client \in closed

\* C11: pressing "v" with no row under the cursor, or with a cursor index
\* past the last row, changes the status message and nothing else: the
\* screen stack (so the current screen), the projects and the clients are
\* the same and the action has issued no request.
C11_Step ==
    (act'.name = "action_cluster" /\ ~RowExists(cursor_row)) =>
        /\ stack' = stack
        /\ reqs' = <<>>
        /\ UNCHANGED <<running, server, api_client, nextClient, closed, projects,
                       tableRows, cursor_row, appPc, detached>>
C11_NoRowNoTransition == [][C11_Step]_vars
C11_Witness ==
    /\ act.name = "action_cluster"
    /\ tableRows # <<>>
    /\ cursor_row >= Len(tableRows)
    /\ stack = <<>>
    /\ status.msg = "Error viewing clusters"

\* C12: when one of the three credential strings is missing at startup, the
\* status after start-up is the "Missing environment variables" message and
\* the current screen is the project list.
C12_MissingCredentialsShown ==
    (act.name = "on_mount" /\ act.resp = "missing") =>
        /\ status.msg = "Missing environment variables. Check .env file"
        /\ CurrentScreen = "ProjectList"

\* C13: a non-2xx answer to get_projects, get_clusters or delete_one_project
\* comes back from the client as a returned RequestFailed value that carries
\* the status code; the client raises nothing.
C13_RequestFailedReturned ==
    (/\ call.op \in {"get_projects", "get_clusters", "delete_one_project"}
     /\ ~call.x.transport_error
     /\ ~Is2xx(call.x.code)) =>
        /\ ~result.raised
        /\ result.type = "RequestFailed"
        /\ result.text = ToString(call.x.code)

\* C14: on a 2xx answer with a JSON body, get_projects and get_clusters
\* return one record per element of the "results" array, in the array's
\* order, and the empty sequence when the body has no "results" key.
C14_OneRecordPerResult ==
    (/\ call.op \in {"get_projects", "get_clusters"}
     /\ ~call.x.transport_error
     /\ Is2xx(call.x.code)
     /\ call.x.body.json) =>
        /\ ~result.raised
        /\ IF call.x.body.has_results
           THEN /\ Len(result.value) = Len(call.x.body.results)
                /\ \A i \in 1..Len(result.value) :
                      LET raw == call.x.body.results[i]
                      IN  IF raw.has_id THEN result.value[i].id = raw.id
                                        ELSE result.value[i].id = EmptyId
           ELSE result.value = <<>>
C14_Witness ==
    /\ call.op = "get_projects"
    /\ ~call.x.transport_error
    /\ Is2xx(call.x.code)
    /\ call.x.body.json
    /\ Len(call.x.body.results) = MaxLen
    /\ call.x.body.results[1] # call.x.body.results[MaxLen]
    /\ ~result.raised

\* C15: close() on a client that is already closed raises nothing and
\* leaves the client as the first close left it.
C15_Step ==
    (call'.op = "close" /\ conn = "closed") =>
        /\ ~result'.raised
        /\ conn' = conn
C16_Step ==
    /\ act'.name \in {"action_delete", "delete_one_project"} => projects' = projects
    /\ (act'.name = "fetch_projects" /\ delId # 0) =>
          IF act'.resp = "ok"
          THEN /\ projects' = SortedSeq(server')
               /\ \A i \in 1..Len(projects') : projects'[i] # delId
          ELSE projects' = projects
C16_DeleteThenReload == [][C16_Step]_vars
C16_Witness ==
    /\ act = [name |-> "fetch_projects", resp |-> "ok"]
    /\ reqs = <<"deleteProject", "listProjects">>
    /\ projects # <<>>
    /\ Len(projects) < MaxProjects

\* C17: when the process has exited through quit, every client created in
\* the session other than the one the app still holds has been closed: no
\* action has dropped a client without closing it.
C17_NoClientLeaked ==
    running = "quit" =>
        \A c \in 1..(nextClient - 1) : c = api_client \/ c \in closed

\* C18: the clusters (and table rows) of every Cluster List are empty or
\* the clusters of that screen's own project.
C18_OwnClusters ==
    /\ \A i \in 1..Len(stack) :
          /\ stack[i].clusters \in {<<>>, ServerClusters(stack[i].project_data)}
          /\ stack[i].rows = stack[i].clusters
    /\ \A j \in 1..Len(detached) : detached[j].clusters = <<>>
    /\ stale # NoScreen =>
          stale.clusters \in {<<>>, ServerClusters(stale.project_data)}
C18_Witness ==
    /\ Len(stack) = 2
    /\ stack[1].project_data # stack[2].project_data
    /\ stack[1].clusters # <<>>
    /\ stack[2].clusters # <<>>
    /\ act.name = "fetch_clusters"

\* C19: whenever no app action is in progress the rows of the project table
\* are the projects sequence, a failed response changes neither, and the id
\* under the cursor is the id of a record in projects.
C19_Inv ==
    appPc = "idle" =>
        /\ tableRows = projects
        /\ RowExists(cursor_row) => find_project(RowId(cursor_row)) = RowId(cursor_row)
C19_Step == act'.resp = "failed" => UNCHANGED <<projects, tableRows>>
C19_TableIsProjects == []C19_Inv /\ [][C19_Step]_vars
C19_Witness ==
    /\ Idle
    /\ act = [name |-> "fetch_projects", resp |-> "failed"]
    /\ Len(tableRows) = MaxProjects
    /\ RowExists(cursor_row)

\* C20: with every request answered, a status of "Loading projects..."
\* leads to "Successfully loaded" or "Error", and a Cluster List that is
\* loading leads to that screen showing "Successfully loaded" or "Error
\* loading clusters", unless the screen is left or the process ends first.
C20_LoadingEnds ==
    /\ (status.msg = "Loading projects...")
          ~> (status.msg \in {"Successfully loaded", "Error"})
    /\ \A i \in 1..MaxScreens :
          (i <= Len(stack) /\ stack[i].fetch = "pending")
            ~> \/ running # "running"
               \/ i > Len(stack)
               \/ stack[i].status.msg \in {"Successfully loaded", "Error loading clusters"}
C20_Witness ==
    /\ act.name = "fetch_clusters"
    /\ status.msg = "Error"
    /\ Len(stack) = MaxScreens
    /\ \A i \in 1..Len(stack) :
          stack[i].status.msg \in {"Successfully loaded", "Error loading clusters"}

====
